---------------------------- MODULE Spec2Model ----------------------------
(***************************************************************************)
(* Scheduling and execution engine of the API scheduler.                   *)
(*                                                                         *)
(* The Store (targets, schedules, runs, attempts), the job registry        *)
(* (APScheduler's in-memory job store, configured in SchedulerService)     *)
(* and every coroutine of the process: the admin handlers of               *)
(* api/schedules.py and api/targets.py, the firing callback _execute_job   *)
(* with RequestExecutor.execute_schedule, the WINDOW stop hook and the     *)
(* start-up rehydration load_schedules.                                    *)
(*                                                                         *)
(* All coroutines run on one asyncio event loop: the code between two      *)
(* awaits is atomic, and other coroutines run while one awaits the         *)
(* database or the HTTP round trip.  One step of the model is therefore    *)
(* the effect of an awaited operation together with the synchronous code   *)
(* that follows it up to the next await.  Time is a discrete clock; one    *)
(* tick stands for TickSeconds seconds.                                    *)
(***************************************************************************)
EXTENDS Integers, Sequences, FiniteSets, TLC

\* ------------------------------------------------------------ bounds
MaxTime == 2
MaxSchedules == 1
MaxIds == 2
MaxTargets == 1
MaxRuns == 2
MaxRequests == 2
MaxServed == 3
MaxRestarts == 1
MaxInterval == 1
MaxDuration == 1
MaxLoopTime == 1
MaxWindowInterval == 2
TickSeconds == 120

\* ------------------------------------------------- program constants
misfire_grace_time == 60
max_instances == 1
\* Settings.max_concurrent_jobs: read from the environment
\* (MAX_CONCURRENT_JOBS), default 100; set to 1 here, so that MaxIds
\* schedules can reach the limit.
max_concurrent_jobs == 1
body_limit == 10000

\* A nullable column or attribute holding no value (None / NULL).
Null == 0 - 1
\* A field of an update request the client did not send (exclude_unset).
Unset == 0 - 2

GraceTicks == misfire_grace_time \div TickSeconds

Ids == 1 .. MaxIds
\* The schedule ids the admin requests name.
ApiIds == 1 .. MaxSchedules
TargetIds == 1 .. MaxTargets
RunIds == 1 .. MaxRuns
Reqs == 1 .. MaxRequests
Intervals == 1 .. MaxInterval
Durations == 1 .. MaxDuration

ScheduleStatus == {"ACTIVE", "PAUSED", "STOPPED"}
ScheduleType == {"INTERVAL", "WINDOW"}
RunStatus == {"SUCCESS", "FAILED", "TIMEOUT", "DNS_ERROR", "CONNECTION_ERROR"}

VARIABLES
    now,        \* the wall clock (datetime.utcnow()), in ticks
    targets,    \* Store: ids of the rows of table targets
    sched,      \* Store: table schedules, by id (NoRow: no such row)
    runs,       \* Store: table runs, a set of rows
    attempts,   \* Store: table attempts, a set of rows
    jobs,       \* the registry: the jobs of APScheduler's job store
    firing,     \* per job id: the _execute_job coroutines in flight
    req,        \* the admin requests in flight
    boot,       \* the lifespan start-up: load_schedules
    used,       \* how many admin requests and restarts the run has seen
    probe       \* one execute_schedule call followed field by field

vars == <<now, targets, sched, runs, attempts, jobs, firing, req, boot, used,
          probe>>

\* ------------------------------------------------------------ Store rows

\* models.Schedule: the columns the engine reads or writes.
NoRow ==
    [exists |-> FALSE, id |-> Null, target_id |-> Null, schedule_type |-> "INTERVAL",
     interval_seconds |-> Null, duration_seconds |-> Null,
     status |-> "STOPPED", started_at |-> Null, stopped_at |-> Null,
     job_id |-> Null]

\* The row create_schedule inserts: status ACTIVE, the timing columns and
\* job_id NULL.
NewSchedule(id, tid, ty, iv, du) ==
    [exists |-> TRUE, id |-> id, target_id |-> tid, schedule_type |-> ty,
     interval_seconds |-> iv, duration_seconds |-> du,
     status |-> "ACTIVE", started_at |-> Null, stopped_at |-> Null,
     job_id |-> Null]

Max(S) == CHOOSE x \in S : \A y \in S : y <= x

\* An INTEGER PRIMARY KEY column: the next id is the largest one plus one.
NextId(ids) == IF ids = {} THEN 1 ELSE Max(ids) + 1

ScheduleIds == {i \in Ids : sched[i].exists}
RunsOf(s) == {r \in runs : r.schedule_id = s}

\* ------------------------------------------------------------ registry

\* Job ids are the strings "schedule_<id>" and "<job_id>_stop"; a job id is
\* modelled by the pair of the number it was formatted from (Null for
\* str(None)) and its suffix.
JobId(s) == <<s, "">>
StopJobId(jid) == <<jid, "_stop">>

\* scheduler.get_job(job_id): the jobs registered under an id.
GetJob(J, id) == {j \in J : j.id = id}
HasJob(J, id) == GetJob(J, id) # {}

\* A registry that never drops a job.
KeepJob(J, id) == J

\* scheduler.remove_job(job_id)
RemoveJob(J, id) == {j \in J : j.id # id}

\* scheduler.add_job(..., replace_existing=True) without the replacement.
RegisterKeepingExisting(J, job) == J \cup {job}

\* scheduler.add_job(..., id=job_id, replace_existing=True): the job store
\* holds one job per id, a job of the same id is replaced.
Register(J, job) == RemoveJob(J, job.id) \cup {job}

\* The 'interval' job of a schedule.  IntervalTrigger's start_date is the
\* time of registration plus one interval and is the first run time; with an
\* end_date the trigger yields no run time later than it.  A job whose
\* next_run_time is Null is paused.
IntervalJob(s, seconds, end, t) ==
    [id |-> JobId(s), func |-> "_execute_job", arg |-> s,
     seconds |-> seconds, start_date |-> t + seconds, end_date |-> end,
     next_run_time |->
        IF end # Null /\ t + seconds > end THEN Null ELSE t + seconds]

\* The 'date' job that stops a WINDOW schedule at end_time.
DateJob(s, run_date) ==
    [id |-> StopJobId(s), func |-> "_stop_window_schedule", arg |-> s,
     seconds |-> Null, start_date |-> run_date, end_date |-> Null,
     next_run_time |-> run_date]

\* IntervalTrigger.get_next_fire_time(None, t): the first run time that is
\* not before t (Null when it would be after end_date).
RECURSIVE FirstFireFrom(_, _, _)
FirstFireFrom(start, seconds, t) ==
    IF start >= t THEN start ELSE FirstFireFrom(start + seconds, seconds, t)

NextFireTime(job, t) ==
    LET n == FirstFireFrom(job.start_date, job.seconds, t)
    IN  IF job.end_date # Null /\ n > job.end_date THEN Null ELSE n

\* The last run time of a due job that is not after t (coalesce=True runs
\* only the last of the missed run times).
RECURSIVE LastDue(_, _, _, _)
LastDue(run_time, seconds, end, t) ==
    IF run_time + seconds <= t /\ (end = Null \/ run_time + seconds <= end)
    THEN LastDue(run_time + seconds, seconds, end, t)
    ELSE run_time

\* scheduler.pause_job(job_id): next_run_time becomes None.
PauseJob(J, id) ==
    {IF j.id = id THEN [j EXCEPT !.next_run_time = Null] ELSE j : j \in J}

\* scheduler.resume_job(job_id) leaving the job as it is.
ResumeJobIgnored(J, id, t) == J

\* scheduler.resume_job(job_id): the next run time is computed anew from
\* the trigger; a job whose trigger is exhausted is removed.
ResumeJob(J, id, t) ==
    LET keep == {j \in J : j.id # id}
        back == {[j EXCEPT !.next_run_time = NextFireTime(j, t)] :
                    j \in {k \in GetJob(J, id) : NextFireTime(k, t) # Null}}
    IN  keep \cup back

\* ------------------------------------------------------------ add_job

\* SchedulerService.add_job, WINDOW branch from the computation of end_time
\* on: the synchronous code up to the next await.  The result names the
\* await the coroutine stops at:
\*   "aj_stopped"  the commit of status STOPPED and stopped_at,
\*   "aj_job"      the commit of job_id (an UPDATE is flushed),
\*   "aj_nop"      the commit of job_id when it already had that value,
\*   "raise"       no await: timedelta(seconds=None) raised TypeError.
AddJobPcs == {"aj_started", "aj_stopped", "aj_job", "aj_nop"}

\* datetime.utcnow() > end_time
WindowExpiredAfterEnd(t, end) == t > end

\* datetime.utcnow() >= end_time
WindowExpired(t, end) == t >= end

AddJobWindow(obj, J, t) ==
    IF obj.duration_seconds = Null
    THEN [obj |-> obj, jobs |-> J, pc |-> "raise"]
    ELSE LET end == obj.started_at + obj.duration_seconds
         IN  IF WindowExpired(t, end)
             THEN [obj |-> [obj EXCEPT !.status = "STOPPED", !.stopped_at = t],
                   jobs |-> J, pc |-> "aj_stopped"]
             ELSE [obj |-> [obj EXCEPT !.job_id = obj.id],
                   jobs |-> Register(
                              Register(J, IntervalJob(obj.id,
                                            obj.interval_seconds, end, t)),
                              DateJob(obj.id, end)),
                   pc |-> IF obj.job_id = obj.id THEN "aj_nop" ELSE "aj_job"]

\* SchedulerService.add_job from its first line up to the first await:
\* the job "schedule_<id>" is removed when registered; an INTERVAL schedule
\* is registered without end; a WINDOW schedule whose started_at is null
\* gets started_at = now and awaits that commit ("aj_started").
AddJobEnter(obj, J, t) ==
    LET J1 == IF HasJob(J, JobId(obj.id)) THEN RemoveJob(J, JobId(obj.id))
              ELSE J
    IN  IF obj.schedule_type = "INTERVAL"
        THEN [obj |-> [obj EXCEPT !.job_id = obj.id],
              jobs |-> Register(J1, IntervalJob(obj.id, obj.interval_seconds,
                                                Null, t)),
              pc |-> IF obj.job_id = obj.id THEN "aj_nop" ELSE "aj_job"]
        ELSE IF obj.started_at = Null
             THEN [obj |-> [obj EXCEPT !.started_at = t], jobs |-> J1,
                   pc |-> "aj_started"]
             ELSE AddJobWindow(obj, J1, t)

\* The row after the commit a coroutine inside add_job awaits at pc: the
\* session flushes an UPDATE of the attributes add_job assigned, the other
\* columns keep what the Store holds.
AddJobFlush(pc, obj, row) ==
    CASE pc = "aj_started" -> [row EXCEPT !.started_at = obj.started_at]
      [] pc = "aj_stopped" -> [row EXCEPT !.status = obj.status,
                                          !.stopped_at = obj.stopped_at]
      [] pc = "aj_job" -> [row EXCEPT !.job_id = obj.job_id]
      [] OTHER -> row

\* Whether the commit awaited at pc fails: the UPDATE of a row that is gone
\* matches no row (StaleDataError).
AddJobFlushFails(pc, row) == pc # "aj_nop" /\ ~row.exists

\* SchedulerService.remove_job(schedule) without the get_job checks.
RemoveJobUnchecked(obj, J) ==
    [jobs |-> RemoveJob(RemoveJob(J, JobId(obj.job_id)), StopJobId(obj.job_id)),
     raised |-> ~HasJob(J, JobId(obj.job_id))
                \/ ~HasJob(J, StopJobId(obj.job_id))]

\* SchedulerService.remove_job(schedule): removes the job named by the
\* schedule's job_id when that is set and registered, then the job named
\* "<job_id>_stop" when registered.  scheduler.remove_job raises
\* JobLookupError for an id that is not registered.
RemoveJobOf(obj, J) ==
    LET J1 == IF obj.job_id # Null /\ HasJob(J, JobId(obj.job_id))
              THEN RemoveJob(J, JobId(obj.job_id)) ELSE J
        J2 == IF HasJob(J1, StopJobId(obj.job_id))
              THEN RemoveJob(J1, StopJobId(obj.job_id)) ELSE J1
    IN  [jobs |-> J2, raised |-> FALSE]

\* pause_job pausing the stop hook along with the main timer.
PauseJobAndHook(obj, J) ==
    IF obj.job_id # Null /\ HasJob(J, JobId(obj.job_id))
    THEN PauseJob(PauseJob(J, JobId(obj.job_id)), StopJobId(obj.job_id))
    ELSE J

\* SchedulerService.pause_job(schedule)
PauseJobOf(obj, J) ==
    IF obj.job_id # Null /\ HasJob(J, JobId(obj.job_id))
    THEN PauseJob(J, JobId(obj.job_id)) ELSE J

\* ------------------------------------------------------------ coroutines

\* The Run object built with a provisional status of SUCCESS.
NoRunSucceeded ==
    [id |-> Null, schedule_id |-> Null, status |-> "SUCCESS",
     status_code |-> Null, started_at |-> Null, completed_at |-> Null,
     request_target |-> Null]

\* The Run object execute_schedule builds, and the row it becomes;
\* request_target stands for the request snapshot (request_url,
\* request_method, request_headers, request_body): the target it was
\* copied from.
NoRun ==
    [id |-> Null, schedule_id |-> Null, status |-> "FAILED",
     status_code |-> Null, started_at |-> Null, completed_at |-> Null,
     request_target |-> Null]

\* The outcomes _execute_request returns (its classification of the
\* response or of the exception).
Outcomes == {"SUCCESS", "TIMEOUT"}

IdleFiring == [pc |-> "idle", tid |-> Null, run |-> NoRun]

\* The coroutines of a job id after the coroutine f moved on to g; one that
\* returned is gone.
Becomes(F, f, g) == (F \ {f}) \cup (IF g.pc = "idle" THEN {} ELSE {g})

IdleReq ==
    [op |-> "none", pc |-> "idle", sid |-> Null, obj |-> NoRow,
     interval |-> Null, duration |-> Null, code |-> "none"]

\* A handler ends with HTTP status `code`.  A 2xx response frees the slot;
\* an error response is kept until it has left the process.
Response(r, code) ==
    IF code \in {"200", "201"} THEN IdleReq
    ELSE [IdleReq EXCEPT !.op = r.op, !.pc = "respond", !.sid = r.sid,
                         !.code = code]

\* What the handler of r answers when add_job raises: create_schedule turns
\* the exception into a 500, update_schedule logs it and returns the
\* schedule, resume_schedule lets it propagate.
RaisedCode(r) == IF r.op = "update" THEN "200" ELSE "500"
ReturnedCode(r) == IF r.op = "create" THEN "201" ELSE "200"

\* The handler of r after a synchronous stretch of add_job ended as a.
AfterAddJob(r, a) ==
    IF a.pc = "raise" THEN Response(r, RaisedCode(r))
    ELSE [r EXCEPT !.pc = a.pc, !.obj = a.obj]

RunIdsUsed == {r.id : r \in runs}

\* Firings that will still insert a Run row.
RECURSIVE PendingInsertsUpTo(_)
PendingInsertsUpTo(n) ==
    IF n = 0 THEN 0
    ELSE PendingInsertsUpTo(n - 1)
         + Cardinality({f \in firing[n] :
                          f.pc \in {"load", "reload", "target", "insert"}})

PendingInserts == PendingInsertsUpTo(MaxIds)

\* create_schedule requests that will still insert a schedule row.
PendingCreates ==
    Cardinality({k \in Reqs : req[k].op = "create"
                               /\ req[k].pc = "insert"})

\* load_schedules: the loop over the loaded schedules, from the start of an
\* iteration up to the next await.  An add_job that raises is logged and the
\* loop goes on with the next schedule.
RECURSIVE LoadNext(_, _, _)
LoadNext(queue, J, t) ==
    IF queue = <<>>
    THEN [pc |-> "done", obj |-> NoRow, queue |-> <<>>, jobs |-> J]
    ELSE LET a == AddJobEnter(Head(queue), J, t)
         IN  IF a.pc = "raise" THEN LoadNext(Tail(queue), a.jobs, t)
             ELSE [pc |-> a.pc, obj |-> a.obj, queue |-> Tail(queue),
                   jobs |-> a.jobs]

\* The rows of a set of schedule ids, in id order.
RECURSIVE RowsInOrder(_, _)
RowsInOrder(S, rows) ==
    IF S = {} THEN <<>>
    ELSE LET m == CHOOSE x \in S : \A y \in S : x <= y
         IN  <<rows[m]>> \o RowsInOrder(S \ {m}, rows)

\* select(Schedule).filter(Schedule.status == ScheduleStatus.ACTIVE)
ActiveIds(rows) == {i \in Ids : rows[i].exists /\ rows[i].status = "ACTIVE"}

\* add_job run from its first line to its return with no other coroutine
\* in between (the result of AddJobEnter, continued by AddJobWindow after
\* the commit of started_at).
AddJob(obj, J, t) ==
    LET a == AddJobEnter(obj, J, t)
    IN  IF a.pc = "aj_started" THEN AddJobWindow(a.obj, a.jobs, t) ELSE a

\* load_schedules with the try around the whole loop: the first add_job
\* that raises ends the loading.
RECURSIVE LoadLoopAborting(_, _, _, _)
LoadLoopAborting(queue, rows, J, t) ==
    IF queue = <<>> THEN [sched |-> rows, jobs |-> J]
    ELSE LET obj == Head(queue)
             a == AddJobEnter(obj, J, t)
             rows1 == IF a.pc \in AddJobPcs
                      THEN [rows EXCEPT ![obj.id] =
                              AddJobFlush(a.pc, a.obj, @)]
                      ELSE rows
             b == AddJob(obj, J, t)
             rows2 == IF a.pc = "aj_started" /\ b.pc \in AddJobPcs
                      THEN [rows1 EXCEPT ![obj.id] =
                              AddJobFlush(b.pc, b.obj, @)]
                      ELSE rows1
         IN  IF b.pc = "raise" THEN [sched |-> rows2, jobs |-> b.jobs]
             ELSE LoadLoopAborting(Tail(queue), rows2, b.jobs, t)

\* load_schedules run to its end with no other coroutine in between: the
\* loop calls add_job for each loaded schedule and every commit inside it
\* flushes to the Store; an add_job that raises is logged.
RECURSIVE LoadLoop(_, _, _, _)
LoadLoop(queue, rows, J, t) ==
    IF queue = <<>> THEN [sched |-> rows, jobs |-> J]
    ELSE LET obj == Head(queue)
             a == AddJobEnter(obj, J, t)
             rows1 == IF a.pc \in AddJobPcs
                      THEN [rows EXCEPT ![obj.id] =
                              AddJobFlush(a.pc, a.obj, @)]
                      ELSE rows
             b == AddJob(obj, J, t)
             rows2 == IF a.pc = "aj_started" /\ b.pc \in AddJobPcs
                      THEN [rows1 EXCEPT ![obj.id] =
                              AddJobFlush(b.pc, b.obj, @)]
                      ELSE rows1
         IN  LoadLoop(Tail(queue), rows2, b.jobs, t)

LoadSchedules(rows, J, t) ==
    LoadLoop(RowsInOrder(ActiveIds(rows), rows), rows, J, t)

\* ------------------------------------------------------------ _execute_request

\* The status codes a response can carry (h11 accepts every three-digit
\* code), the edges of every class of the classification among them.
StatusCodes ==
    {100, 199, 200, 204, 299, 300, 399, 400, 404, 499, 500, 503, 599, 600, 999}

\* The exceptions client.request raises: httpx's ConnectTimeout and
\* ReadTimeout (both TimeoutException), ConnectError, ReadError (a
\* TransportError that is neither), and an exception outside httpx.
ExceptionClasses ==
    {"ConnectTimeout", "ReadTimeout", "ConnectError", "ReadError", "OSError"}

\* isinstance(e, base) for the handlers of _execute_request.
IsInstance(class, base) ==
    CASE base = "TimeoutException" -> class \in {"ConnectTimeout", "ReadTimeout"}
      [] base = "ConnectError"     -> class = "ConnectError"
      [] base = "ConnectTimeout"   -> class = "ConnectTimeout"
      [] base = "Exception"        -> TRUE

\* str(e) of the exceptions: the two messages resolvers give for a host
\* name that does not resolve, the messages of a refused and of a reset
\* connection, and an empty one.
Messages ==
    {"Name or service not known", "nodename nor servname provided",
     "Connection refused", "Connection reset by peer", ""}

\* str.lower() on those messages.
Lower(msg) ==
    IF msg = "Name or service not known" THEN "name or service not known"
    ELSE IF msg = "Connection refused" THEN "connection refused"
    ELSE IF msg = "Connection reset by peer" THEN "connection reset by peer"
    ELSE msg

\* The tokens the last handler looks for in the lowered message.
DnsTokens == {"name or service not known", "nodename nor servname provided"}

\* A response body is a sequence of stretches of n characters that take w
\* bytes each in the body's encoding: response.content is its bytes,
\* response.text its characters.
Stretch(n, w) == [n |-> n, w |-> w]

Bodies ==
    {<<>>,
     <<Stretch(9999, 1)>>,
     <<Stretch(10000, 1)>>,
     <<Stretch(10001, 1)>>,
     <<Stretch(5000, 2)>>,
     <<Stretch(10000, 2)>>,
     <<Stretch(9999, 1), Stretch(2, 3)>>}

\* len(response.text)
RECURSIVE Chars(_)
Chars(body) ==
    IF body = <<>> THEN 0 ELSE Head(body).n + Chars(Tail(body))

\* len(response.content)
RECURSIVE ByteLength(_)
ByteLength(body) ==
    IF body = <<>> THEN 0
    ELSE Head(body).n * Head(body).w + ByteLength(Tail(body))

\* text[:k], the first k characters.
RECURSIVE Slice(_, _)
Slice(text, k) ==
    IF text = <<>> \/ k = 0 THEN <<>>
    ELSE IF Head(text).n <= k
      THEN <<Head(text)>> \o Slice(Tail(text), k - Head(text).n)
    ELSE <<Stretch(k, Head(text).w)>>

\* response_data.get('body', '')[:10000]
Truncate(text) == Slice(text, body_limit)

\* What client.request does: it returns a response or raises.
ClientOutcomes ==
    [kind : {"response"}, code : StatusCodes, class : {""}, msg : {""},
     body : Bodies]
       \cup [kind : {"raise"}, code : {Null}, class : ExceptionClasses,
             msg : Messages, body : {<<>>}]

\* The readings of loop.time() at the start of the request and at its end;
\* the loop's clock is monotonic.
LoopTimes == {t \in (0 .. MaxLoopTime) \X (0 .. MaxLoopTime) : t[1] <= t[2]}

\* latency = (loop.time() - start_time) * 1000
Latency(start, end) == (end - start) * 1000

\* The tuple _execute_request returns (error_msg and the response data are
\* left out, response_data is kept as whether there is one).
Result(status, latency, status_code, error_type, response_data) ==
    [status |-> status, latency |-> latency, status_code |-> status_code,
     error_type |-> error_type, response_data |-> response_data]

IsSuccessUpTo300(code) == 200 <= code /\ code <= 300

\* The first test of the classification.
IsSuccess(code) == 200 <= code /\ code < 300

\* The classification of a response.
ClassifyResponse(code, latency) ==
    IF IsSuccess(code) THEN Result("SUCCESS", latency, code, Null, TRUE)
    ELSE IF code >= 500 THEN Result("FAILED", latency, code, "http_5xx", TRUE)
    ELSE IF code >= 400 THEN Result("FAILED", latency, code, "http_4xx", TRUE)
    ELSE Result("FAILED", latency, code, "http_unexpected", TRUE)

OnConnectErrorAsTimeout(latency) ==
    Result("CONNECTION_ERROR", latency, Null, "timeout", FALSE)

\* The handler of httpx.ConnectError.
OnConnectError(latency) ==
    Result("CONNECTION_ERROR", latency, Null, "connection", FALSE)

\* The except clauses, the first that matches.
ClassifyException(class, msg, latency) ==
    IF IsInstance(class, "TimeoutException")
      THEN Result("TIMEOUT", latency, Null, "timeout", FALSE)
    ELSE IF IsInstance(class, "ConnectError") THEN OnConnectError(latency)
    ELSE IF IsInstance(class, "ConnectTimeout")
      THEN Result("TIMEOUT", latency, Null, "timeout", FALSE)
    ELSE IF Lower(msg) \in DnsTokens
      THEN Result("DNS_ERROR", latency, Null, "dns", FALSE)
    ELSE Result("FAILED", latency, Null, "unknown", FALSE)

\* _execute_request, given what client.request did and the two readings of
\* the loop's clock.
ExecuteRequest(out, times) ==
    IF out.kind = "response"
      THEN ClassifyResponse(out.code, Latency(times[1], times[2]))
      ELSE ClassifyException(out.class, out.msg, Latency(times[1], times[2]))

\* A Run row with the fields the executor fills in, before its insert (a
\* response_body that is not set is written as the empty text).
NoRunRecord ==
    [id |-> Null, status |-> "FAILED", latency_ms |-> Null,
     status_code |-> Null, error_type |-> Null, started_at |-> Null,
     completed_at |-> Null, response_size_bytes |-> Null,
     response_body |-> <<>>]

\* No execute_schedule call is followed field by field.
IdleProbe ==
    [pc |-> "idle",
     out |-> [kind |-> "", code |-> Null, class |-> "", msg |-> "",
              body |-> <<>>],
     times |-> <<0, 0>>,
     run |-> NoRunRecord,       \* the session's Run object
     attempt |-> {},            \* the session's pending Attempt object
     row |-> NoRunRecord,       \* Store: the Run row (id Null: none)
     attempts |-> {},           \* Store: the Attempt rows of the Run
     returned |-> ""]           \* what execute_schedule returned

\* The execute_schedule calls to follow: the schedule and its target were
\* found, the Run is about to be inserted.
Probes ==
    {[IdleProbe EXCEPT !.pc = "insert", !.out = o, !.times = t] :
        o \in ClientOutcomes, t \in LoopTimes}

Init ==
    /\ now = 0
    /\ targets = {}
    /\ sched = [i \in Ids |-> NoRow]
    /\ runs = {}
    /\ attempts = {}
    /\ jobs = {}
    /\ firing = [i \in Ids |-> {}]
    /\ req = [k \in Reqs |-> IdleReq]
    /\ boot = [pc |-> "select", obj |-> NoRow, queue |-> <<>>]
    /\ used = [requests |-> 0, restarts |-> 0]
    /\ probe = IdleProbe

\* ------------------------------------------------------------ the clock

Tick ==
    /\ now < MaxTime
    /\ now' = now + 1
    /\ UNCHANGED <<probe, targets, sched, runs, attempts, jobs, firing, req, boot, used>>

\* ------------------------------------------------------------ lifespan

\* The process stops (its registry, its coroutines and its open requests
\* are gone) and starts again: lifespan starts the scheduler and awaits
\* load_schedules.
Restart ==
    /\ used.restarts < MaxRestarts
    /\ used' = [used EXCEPT !.restarts = @ + 1]
    /\ jobs' = {}
    /\ firing' = [i \in Ids |-> {}]
    /\ req' = [k \in Reqs |-> IdleReq]
    /\ boot' = [pc |-> "select", obj |-> NoRow, queue |-> <<>>]
    /\ UNCHANGED <<probe, now, targets, sched, runs, attempts>>

\* load_schedules: the select of the ACTIVE schedules returns, the loop
\* enters add_job for the first of them.
LoadSelect ==
    /\ boot.pc = "select"
    /\ LET n == LoadNext(RowsInOrder(ActiveIds(sched), sched), jobs, now)
       IN  /\ boot' = [pc |-> n.pc, obj |-> n.obj, queue |-> n.queue]
           /\ jobs' = n.jobs
    /\ UNCHANGED <<probe, now, targets, sched, runs, attempts, firing, req, used>>

\* load_schedules: a commit awaited inside add_job returns.
LoadCommit ==
    /\ boot.pc \in AddJobPcs
    /\ LET row == sched[boot.obj.id]
           failed == AddJobFlushFails(boot.pc, row)
           goes_on == ~failed /\ boot.pc = "aj_started"
           a == AddJobWindow(boot.obj, jobs, now)
           n == IF goes_on /\ a.pc # "raise"
                THEN [pc |-> a.pc, obj |-> a.obj, queue |-> boot.queue,
                      jobs |-> a.jobs]
                ELSE LoadNext(boot.queue, jobs, now)
       IN  /\ sched' = IF failed THEN sched
                       ELSE [sched EXCEPT ![boot.obj.id] =
                                AddJobFlush(boot.pc, boot.obj, row)]
           /\ boot' = [pc |-> n.pc, obj |-> n.obj, queue |-> n.queue]
           /\ jobs' = n.jobs
    /\ UNCHANGED <<probe, now, targets, runs, attempts, firing, req, used>>

\* ------------------------------------------------------------ admin API

\* The admin surface serves requests once the start-up has completed.  A
\* request arrives at the first free slot; its handler runs up to its first
\* await.
Serving(k) ==
    /\ boot.pc = "done"
    /\ req[k].pc = "idle"
    /\ \A h \in Reqs : h < k => req[h].pc # "idle"
    /\ used.requests < MaxServed
    /\ used' = [used EXCEPT !.requests = @ + 1]

\* The request a handler starts with.
Request(op, s) == [IdleReq EXCEPT !.op = op, !.pc = "select", !.sid = s]

\* An error response leaves the process.
Return(k) ==
    /\ req[k].pc = "respond"
    /\ req' = [req EXCEPT ![k] = IdleReq]
    /\ UNCHANGED <<probe, now, targets, sched, runs, attempts, jobs, firing, boot, used>>

\* A commit awaited inside add_job, called by a handler, returns.
AddJobCommit(k) ==
    /\ req[k].pc \in AddJobPcs
    /\ LET r == req[k]
           row == sched[r.sid]
           failed == AddJobFlushFails(r.pc, row)
           a == AddJobWindow(r.obj, jobs, now)
       IN  /\ sched' = IF failed THEN sched
                       ELSE [sched EXCEPT ![r.sid] =
                                AddJobFlush(r.pc, r.obj, row)]
           /\ req' = [req EXCEPT ![k] =
                        IF failed THEN Response(r, RaisedCode(r))
                        ELSE IF r.pc = "aj_started" THEN AfterAddJob(r, a)
                        ELSE Response(r, ReturnedCode(r))]
           /\ jobs' = IF ~failed /\ r.pc = "aj_started" THEN a.jobs ELSE jobs
    /\ UNCHANGED <<probe, now, targets, runs, attempts, firing, boot, used>>

\* POST /targets
CreateTarget ==
    /\ boot.pc = "done"
    /\ NextId(targets) <= MaxTargets
    /\ targets' = targets \cup {NextId(targets)}
    /\ UNCHANGED <<probe, now, sched, runs, attempts, jobs, firing, req, boot, used>>

\* DELETE /targets/{id}: the select returns.
DeleteTargetSelect(k, tid) ==
    /\ Serving(k)
    /\ LET r == Request("delete_target", tid)
       IN  req' = [req EXCEPT ![k] =
                 IF tid \in targets THEN [r EXCEPT !.pc = "delete"]
                 ELSE Response(r, "404")]
    /\ UNCHANGED <<probe, now, targets, sched, runs, attempts, jobs, firing, boot>>

\* db.delete(target) and the commit: the relationship cascades delete the
\* target's schedules, their runs and the runs' attempts.  The registry is
\* not told.
DeleteTargetCommit(k) ==
    /\ req[k].op = "delete_target" /\ req[k].pc = "delete"
    /\ LET tid == req[k].sid
           gone == {i \in Ids : sched[i].exists /\ sched[i].target_id = tid}
           goneRuns == {r \in runs : r.schedule_id \in gone}
       IN  /\ targets' = targets \ {tid}
           /\ sched' = [i \in Ids |-> IF i \in gone THEN NoRow ELSE sched[i]]
           /\ runs' = runs \ goneRuns
           /\ attempts' = {a \in attempts :
                             a.run_id \notin {r.id : r \in goneRuns}}
    /\ req' = [req EXCEPT ![k] = Response(req[k], "200")]
    /\ UNCHANGED <<probe, now, jobs, firing, boot, used>>

\* POST /schedules: the select of the target returns.  ScheduleCreate
\* requires interval_seconds > 0 and duration_seconds > 0 when given; the
\* validator of duration_seconds does not run when the field is omitted.
CreateTargetCheck(k, tid, ty, iv, du) ==
    /\ Serving(k)
    /\ NextId(ScheduleIds) + PendingCreates <= MaxSchedules
    /\ LET r == [Request("create", Null) EXCEPT
                   !.obj = NewSchedule(Null, tid, ty, iv, du)]
       IN  req' = [req EXCEPT ![k] =
                 IF tid \in targets THEN [r EXCEPT !.pc = "insert"]
                 ELSE Response(r, "404")]
    /\ UNCHANGED <<probe, now, targets, sched, runs, attempts, jobs, firing, boot>>

\* create_schedule: the commit of the new row returns.
CreateInsert(k) ==
    /\ req[k].op = "create" /\ req[k].pc = "insert"
    /\ LET id == NextId(ScheduleIds)
       IN  /\ id \in Ids
           /\ sched' = [sched EXCEPT ![id] = [req[k].obj EXCEPT !.id = id]]
           /\ req' = [req EXCEPT ![k] = [req[k] EXCEPT !.pc = "refresh",
                                                       !.sid = id]]
    /\ UNCHANGED <<probe, now, targets, runs, attempts, jobs, firing, boot, used>>

\* create_schedule: the refresh returns and add_job is entered.
CreateRefresh(k) ==
    /\ req[k].op = "create" /\ req[k].pc = "refresh"
    /\ LET r == req[k]
           row == sched[r.sid]
           a == AddJobEnter(row, jobs, now)
       IN  /\ req' = [req EXCEPT ![k] =
                        IF row.exists THEN AfterAddJob(r, a)
                        ELSE Response(r, "500")]
           /\ jobs' = IF row.exists THEN a.jobs ELSE jobs
    /\ UNCHANGED <<probe, now, targets, sched, runs, attempts, firing, boot, used>>

\* PUT /schedules/{id}: the select returns; the fields of the request are
\* assigned.  ScheduleUpdate takes an interval_seconds > 0 and a
\* duration_seconds that is > 0 or null.  An attribute assigned the value it
\* was loaded with is not part of the flush.
UpdateSelect(k, s, iv, du) ==
    /\ Serving(k)
    /\ LET r == Request("update", s)
           row == sched[s]
       IN  req' = [req EXCEPT ![k] =
                 IF ~row.exists THEN Response(r, "404")
                 ELSE [r EXCEPT !.pc = "commit",
                         !.interval = IF iv = row.interval_seconds
                                      THEN Unset ELSE iv,
                         !.duration = IF du = row.duration_seconds
                                      THEN Unset ELSE du]]
    /\ UNCHANGED <<probe, now, targets, sched, runs, attempts, jobs, firing, boot>>

\* update_schedule: the commit returns.
UpdateCommit(k) ==
    /\ req[k].op = "update" /\ req[k].pc = "commit"
    /\ LET r == req[k]
           row == sched[r.sid]
           dirty == r.interval # Unset \/ r.duration # Unset
       IN  /\ sched' = IF ~row.exists THEN sched
                       ELSE [sched EXCEPT ![r.sid] =
                              [row EXCEPT
                                 !.interval_seconds =
                                    IF r.interval = Unset THEN @ ELSE r.interval,
                                 !.duration_seconds =
                                    IF r.duration = Unset THEN @ ELSE r.duration]]
           /\ req' = [req EXCEPT ![k] =
                        IF ~row.exists /\ dirty THEN Response(r, "500")
                        ELSE [r EXCEPT !.pc = "refresh"]]
    /\ UNCHANGED <<probe, now, targets, runs, attempts, jobs, firing, boot, used>>

\* update_schedule: the refresh returns; an ACTIVE schedule is handed to
\* add_job.
UpdateRefresh(k) ==
    /\ req[k].op = "update" /\ req[k].pc = "refresh"
    /\ LET r == req[k]
           row == sched[r.sid]
           a == AddJobEnter(row, jobs, now)
           installs == row.exists /\ row.status = "ACTIVE"
       IN  /\ req' = [req EXCEPT ![k] =
                        IF ~row.exists THEN Response(r, "500")
                        ELSE IF installs THEN AfterAddJob(r, a)
                        ELSE Response(r, "200")]
           /\ jobs' = IF installs THEN a.jobs ELSE jobs
    /\ UNCHANGED <<probe, now, targets, sched, runs, attempts, firing, boot, used>>

\* pause_schedule: schedule.status != ScheduleStatus.ACTIVE is a 400.
PauseAccepts(row) == row.status = "ACTIVE"

\* POST /schedules/{id}/pause: the select returns; the status is checked.
PauseSelect(k, s) ==
    /\ Serving(k)
    /\ LET r == Request("pause", s)
           row == sched[s]
       IN  req' = [req EXCEPT ![k] =
                 IF ~row.exists THEN Response(r, "404")
                 ELSE IF ~PauseAccepts(row) THEN Response(r, "400")
                 ELSE [r EXCEPT !.pc = "commit"]]
    /\ UNCHANGED <<probe, now, targets, sched, runs, attempts, jobs, firing, boot>>

\* pause_schedule: the commit of status PAUSED returns.
PauseCommit(k) ==
    /\ req[k].op = "pause" /\ req[k].pc = "commit"
    /\ LET r == req[k]
           row == sched[r.sid]
       IN  /\ sched' = IF ~row.exists THEN sched
                       ELSE [sched EXCEPT ![r.sid].status = "PAUSED"]
           /\ req' = [req EXCEPT ![k] =
                        IF ~row.exists THEN Response(r, "500")
                        ELSE [r EXCEPT !.pc = "refresh"]]
    /\ UNCHANGED <<probe, now, targets, runs, attempts, jobs, firing, boot, used>>

\* pause_schedule: the refresh returns; pause_job pauses the timer.
PauseRefresh(k) ==
    /\ req[k].op = "pause" /\ req[k].pc = "refresh"
    /\ LET r == req[k]
           row == sched[r.sid]
       IN  /\ req' = [req EXCEPT ![k] =
                        Response(r, IF row.exists THEN "200" ELSE "500")]
           /\ jobs' = IF row.exists THEN PauseJobOf(row, jobs) ELSE jobs
    /\ UNCHANGED <<probe, now, targets, sched, runs, attempts, firing, boot, used>>

\* resume_schedule: schedule.status != ScheduleStatus.PAUSED is a 400.
ResumeAccepts(row) == row.status = "PAUSED"

\* POST /schedules/{id}/resume: the select returns; the status is checked.
ResumeSelect(k, s) ==
    /\ Serving(k)
    /\ LET r == Request("resume", s)
           row == sched[s]
       IN  req' = [req EXCEPT ![k] =
                 IF ~row.exists THEN Response(r, "404")
                 ELSE IF ~ResumeAccepts(row) THEN Response(r, "400")
                 ELSE [r EXCEPT !.pc = "commit"]]
    /\ UNCHANGED <<probe, now, targets, sched, runs, attempts, jobs, firing, boot>>

\* resume_schedule: the commit of status ACTIVE returns.
ResumeCommit(k) ==
    /\ req[k].op = "resume" /\ req[k].pc = "commit"
    /\ LET r == req[k]
           row == sched[r.sid]
       IN  /\ sched' = IF ~row.exists THEN sched
                       ELSE [sched EXCEPT ![r.sid].status = "ACTIVE"]
           /\ req' = [req EXCEPT ![k] =
                        IF ~row.exists THEN Response(r, "500")
                        ELSE [r EXCEPT !.pc = "refresh"]]
    /\ UNCHANGED <<probe, now, targets, runs, attempts, jobs, firing, boot, used>>

\* resume_schedule: the refresh returns; resume_job resumes the registered
\* timer or, when there is none, enters add_job.
ResumeRefresh(k) ==
    /\ req[k].op = "resume" /\ req[k].pc = "refresh"
    /\ LET r == req[k]
           row == sched[r.sid]
           registered == row.job_id # Null /\ HasJob(jobs, JobId(row.job_id))
           a == AddJobEnter(row, jobs, now)
       IN  /\ req' = [req EXCEPT ![k] =
                        IF ~row.exists THEN Response(r, "500")
                        ELSE IF registered THEN Response(r, "200")
                        ELSE AfterAddJob(r, a)]
           /\ jobs' = IF ~row.exists THEN jobs
                      ELSE IF registered
                      THEN ResumeJob(jobs, JobId(row.job_id), now)
                      ELSE a.jobs
    /\ UNCHANGED <<probe, now, targets, sched, runs, attempts, firing, boot, used>>

\* DELETE /schedules/{id}: the select returns; remove_job runs on the
\* loaded row.
DeleteSelect(k, s) ==
    /\ Serving(k)
    /\ LET r == Request("delete", s)
           row == sched[s]
           rm == RemoveJobOf(row, jobs)
       IN  /\ req' = [req EXCEPT ![k] =
                        IF ~row.exists THEN Response(r, "404")
                        ELSE IF rm.raised THEN Response(r, "500")
                        ELSE [r EXCEPT !.pc = "delete"]]
           /\ jobs' = IF row.exists THEN rm.jobs ELSE jobs
    /\ UNCHANGED <<probe, now, targets, sched, runs, attempts, firing, boot>>

\* delete_schedule: db.delete(schedule) and the commit return; the
\* relationship cascades delete the schedule's runs and their attempts.
DeleteCommit(k) ==
    /\ req[k].op = "delete" /\ req[k].pc = "delete"
    /\ LET s == req[k].sid
           goneRuns == RunsOf(s)
       IN  /\ sched' = [sched EXCEPT ![s] = NoRow]
           /\ runs' = runs \ goneRuns
           /\ attempts' = {a \in attempts :
                             a.run_id \notin {r.id : r \in goneRuns}}
    /\ req' = [req EXCEPT ![k] = Response(req[k], "200")]
    /\ UNCHANGED <<probe, now, targets, jobs, firing, boot, used>>

\* ------------------------------------------------------------ timers

\* The jobs whose run time has come.
Due(func) ==
    {j \in jobs : j.func = func /\ j.next_run_time # Null
                  /\ j.next_run_time <= now}

\* A due job after the registry processed it: the next run time follows the
\* run time that was submitted; a job whose trigger yields none is removed.
Reschedule(J, j, run_time) ==
    LET n == run_time + j.seconds
    IN  IF j.seconds = Null \/ (j.end_date # Null /\ n > j.end_date)
        THEN J \ {j}
        ELSE (J \ {j}) \cup {[j EXCEPT !.next_run_time = n]}

\* max_instances: a job is not submitted while that many instances of it
\* run (counted per job id).
NoInstanceLimit(s) == TRUE

InstanceFree(s) == Cardinality(firing[s]) < max_instances

\* misfire_grace_time: a run time observed later than that is skipped.
InGrace(run_time) == now - run_time <= GraceTicks

\* The registry processes the due interval job of a schedule and, unless an
\* instance is running or the run time is missed, starts _execute_job.
Fire(s) ==
    /\ \E j \in Due("_execute_job") :
        /\ j.arg = s
        /\ LET run_time == LastDue(j.next_run_time, j.seconds, j.end_date, now)
           IN  /\ jobs' = Reschedule(jobs, j, run_time)
               /\ firing' = IF InstanceFree(s) /\ InGrace(run_time)
                            THEN [firing EXCEPT ![s] = @ \cup
                                    {[IdleFiring EXCEPT !.pc = "load"]}]
                            ELSE firing
    /\ NextId(RunIdsUsed) + PendingInserts <= MaxRuns
    /\ UNCHANGED <<probe, now, targets, sched, runs, attempts, req, boot, used>>

\* The registry processes the due stop hook of a schedule: the date job is
\* removed and, unless missed, _stop_window_schedule updates the row (if
\* there is one) to STOPPED with stopped_at = now and commits.
StopWindow(s) ==
    /\ \E j \in Due("_stop_window_schedule") :
        /\ j.arg = s
        /\ jobs' = Reschedule(jobs, j, j.next_run_time)
        /\ sched' = IF InGrace(j.next_run_time) /\ sched[s].exists
                    THEN [sched EXCEPT ![s].status = "STOPPED",
                                       ![s].stopped_at = now]
                    ELSE sched
    /\ UNCHANGED <<probe, now, targets, runs, attempts, firing, req, boot, used>>

\* ------------------------------------------------------------ firing

\* _execute_job with the check of the row only.
StillStored(row) == row.exists

\* _execute_job: the schedule was found and its status is ACTIVE.
StillActive(row) == row.exists /\ row.status = "ACTIVE"

\* _execute_job: the select of the schedule returns; a missing or not
\* ACTIVE schedule ends the firing.
FireLoad(s) ==
    /\ \E f \in firing[s] :
        /\ f.pc = "load"
        /\ firing' = [firing EXCEPT ![s] = Becomes(@, f,
                        IF StillActive(sched[s])
                        THEN [f EXCEPT !.pc = "reload",
                                       !.tid = sched[s].target_id]
                        ELSE IdleFiring)]
    /\ UNCHANGED <<probe, now, targets, sched, runs, attempts, jobs, req, boot, used>>

\* execute_schedule: its own select of the schedule returns.
FireReload(s) ==
    /\ \E f \in firing[s] :
        /\ f.pc = "reload"
        /\ firing' = [firing EXCEPT ![s] = Becomes(@, f,
                        IF sched[s].exists THEN [f EXCEPT !.pc = "target"]
                        ELSE IdleFiring)]
    /\ UNCHANGED <<probe, now, targets, sched, runs, attempts, jobs, req, boot, used>>

\* execute_schedule: the select of the target returns; without the target
\* the firing ends, with it the Run is built (status FAILED, started_at =
\* now) and its commit awaited.
FireTarget(s) ==
    /\ \E f \in firing[s] :
        /\ f.pc = "target"
        /\ firing' = [firing EXCEPT ![s] = Becomes(@, f,
                        IF f.tid \in targets
                        THEN [f EXCEPT !.pc = "insert",
                                       !.run = [NoRun EXCEPT
                                                  !.schedule_id = s,
                                                  !.request_target = f.tid,
                                                  !.started_at = now]]
                        ELSE IdleFiring)]
    /\ UNCHANGED <<probe, now, targets, sched, runs, attempts, jobs, req, boot, used>>

\* execute_schedule: the commit of the provisional Run returns; the HTTP
\* request is issued.
FireInsert(s) ==
    /\ \E f \in firing[s] :
        /\ f.pc = "insert"
        /\ LET run == [f.run EXCEPT !.id = NextId(RunIdsUsed)]
           IN  /\ run.id \in RunIds
               /\ runs' = runs \cup {run}
               /\ firing' = [firing EXCEPT ![s] = Becomes(@, f,
                               [f EXCEPT !.pc = "http", !.run = run])]
    /\ UNCHANGED <<probe, now, targets, sched, attempts, jobs, req, boot, used>>

\* What _execute_request returns for an outcome: a response with status 200
\* for SUCCESS, a read timeout for TIMEOUT.
OutcomeOf(outcome) ==
    IF outcome = "SUCCESS" THEN ClassifyResponse(200, 0)
    ELSE ClassifyException("ReadTimeout", "", 0)

\* execute_schedule: _execute_request returns its classification; the Run
\* gets its final fields and completed_at = now, the Attempt is added and
\* the commit awaited.
FireHttp(s, outcome) ==
    /\ \E f \in firing[s] :
        /\ f.pc = "http"
        /\ firing' = [firing EXCEPT ![s] = Becomes(@, f,
                        [f EXCEPT !.pc = "commit",
                                  !.run = [@ EXCEPT
                                     !.status = OutcomeOf(outcome).status,
                                     !.status_code =
                                         OutcomeOf(outcome).status_code,
                                     !.completed_at = now]])]
    /\ UNCHANGED <<probe, now, targets, sched, runs, attempts, jobs, req, boot, used>>

\* execute_schedule: the final commit returns.  The UPDATE sets the columns
\* the coroutine assigned on the row that has the Run's id, and the Attempt
\* is inserted; the UPDATE of a Run row that is gone raises, the handler
\* rolls back and nothing is written.
FireCommit(s) ==
    /\ \E f \in firing[s] :
        /\ f.pc = "commit"
        /\ LET run == f.run
               stored == {r \in runs : r.id = run.id}
           IN  /\ runs' = IF stored = {} THEN runs
                          ELSE (runs \ stored) \cup
                                 {[r EXCEPT !.status = run.status,
                                            !.status_code = run.status_code,
                                            !.completed_at = run.completed_at]
                                    : r \in stored}
               /\ attempts' = IF stored = {} THEN attempts
                              ELSE attempts \cup
                                     {[id |-> NextId({a.id : a \in attempts}),
                                       run_id |-> run.id,
                                       attempt_number |-> 1,
                                       status |-> run.status,
                                       status_code |-> run.status_code]}
        /\ firing' = [firing EXCEPT ![s] = Becomes(@, f, IdleFiring)]
    /\ UNCHANGED <<probe, now, targets, sched, jobs, req, boot, used>>

\* ------------------------------------------------------------ Next

Next ==
    \/ Tick
    \/ Restart
    \/ LoadSelect
    \/ LoadCommit
    \/ CreateTarget
    \/ \E k \in Reqs :
        \/ Return(k)
        \/ AddJobCommit(k)
        \/ \E tid \in TargetIds : DeleteTargetSelect(k, tid)
        \/ DeleteTargetCommit(k)
        \/ \E tid \in TargetIds, ty \in ScheduleType, iv \in Intervals,
              du \in Durations \cup {Null} :
                CreateTargetCheck(k, tid, ty, iv, du)
        \/ CreateInsert(k)
        \/ CreateRefresh(k)
        \/ \E s \in ApiIds, iv \in Intervals \cup {Unset},
              du \in Durations \cup {Unset, Null} :
                UpdateSelect(k, s, iv, du)
        \/ UpdateCommit(k)
        \/ UpdateRefresh(k)
        \/ \E s \in ApiIds : PauseSelect(k, s)
        \/ PauseCommit(k)
        \/ PauseRefresh(k)
        \/ \E s \in ApiIds : ResumeSelect(k, s)
        \/ ResumeCommit(k)
        \/ ResumeRefresh(k)
        \/ \E s \in ApiIds : DeleteSelect(k, s)
        \/ DeleteCommit(k)
    \/ \E s \in Ids :
        \/ Fire(s)
        \/ StopWindow(s)
        \/ FireLoad(s)
        \/ FireReload(s)
        \/ FireTarget(s)
        \/ FireInsert(s)
        \/ \E o \in Outcomes : FireHttp(s, o)
        \/ FireCommit(s)

Spec == Init /\ [][Next]_vars

\* ------------------------------------------------------------ execute_schedule, field by field

\* execute_schedule: the commit and the refresh of the provisional Run
\* return.
ProbeInsert ==
    /\ probe.pc = "insert"
    /\ LET run == [NoRunRecord EXCEPT !.id = 1, !.started_at = now]
       IN  probe' = [probe EXCEPT !.pc = "request", !.run = run, !.row = run]
    /\ UNCHANGED <<now, targets, sched, runs, attempts, jobs, firing, req,
                   boot, used>>

\* execute_schedule: the Store raises at the commit of the provisional Run;
\* the handler rolls back and returns None.
ProbeInsertFails ==
    /\ probe.pc = "insert"
    /\ probe' = [probe EXCEPT !.pc = "done", !.returned = "None"]
    /\ UNCHANGED <<now, targets, sched, runs, attempts, jobs, firing, req,
                   boot, used>>

\* The Attempt execute_schedule builds from the Run and the result.
AttemptOf(run, res) ==
    [run_id |-> run.id, attempt_number |-> 1, status |-> res.status,
     started_at |-> run.started_at, completed_at |-> run.completed_at,
     status_code |-> res.status_code, latency_ms |-> res.latency,
     error_type |-> res.error_type]

\* execute_schedule: _execute_request returns; the Run object takes the
\* result and the Attempt is added to the session.
ProbeRequest ==
    /\ probe.pc = "request"
    /\ LET res == ExecuteRequest(probe.out, probe.times)
           run == [probe.run EXCEPT
                     !.status = res.status,
                     !.latency_ms = res.latency,
                     !.status_code = res.status_code,
                     !.error_type = res.error_type,
                     !.completed_at = now,
                     !.response_size_bytes =
                         IF res.response_data
                         THEN ByteLength(probe.out.body) ELSE Null,
                     !.response_body =
                         IF res.response_data
                         THEN Truncate(probe.out.body) ELSE <<>>]
       IN  probe' = [probe EXCEPT !.pc = "commit", !.run = run,
                                  !.attempt = {AttemptOf(run, res)}]
    /\ UNCHANGED <<now, targets, sched, runs, attempts, jobs, firing, req,
                   boot, used>>

\* execute_schedule: the commit of the Run's update and of the Attempt
\* returns; the Run is returned.
ProbeCommit ==
    /\ probe.pc = "commit"
    /\ probe' = [probe EXCEPT !.pc = "done", !.row = probe.run,
                              !.attempts = probe.attempt, !.attempt = {},
                              !.returned = "run"]
    /\ UNCHANGED <<now, targets, sched, runs, attempts, jobs, firing, req,
                   boot, used>>

\* execute_schedule: the Store raises at that commit; the handler logs,
\* rolls the session back and returns None.
ProbeCommitFails ==
    /\ probe.pc = "commit"
    /\ probe' = [probe EXCEPT !.pc = "done", !.run = probe.row,
                              !.attempt = {}, !.returned = "None"]
    /\ UNCHANGED <<now, targets, sched, runs, attempts, jobs, firing, req,
                   boot, used>>

\* One execute_schedule call, for every outcome of the request and of the
\* Store, while the wall clock advances.
ExecInit ==
    /\ now = 0
    /\ targets = {}
    /\ sched = [i \in Ids |-> NoRow]
    /\ runs = {}
    /\ attempts = {}
    /\ jobs = {}
    /\ firing = [i \in Ids |-> {}]
    /\ req = [k \in Reqs |-> IdleReq]
    /\ boot = [pc |-> "select", obj |-> NoRow, queue |-> <<>>]
    /\ used = [requests |-> 0, restarts |-> 0]
    /\ probe \in Probes

ExecNext ==
    \/ Tick
    \/ ProbeInsert
    \/ ProbeInsertFails
    \/ ProbeRequest
    \/ ProbeCommit
    \/ ProbeCommitFails

ExecSpec == ExecInit /\ [][ExecNext]_vars


\* ------------------------------------------------------------ start-up and shutdown

\* The schedule rows the Store can hold under id i when the process starts
\* at time 1: an INTERVAL schedule, ACTIVE or PAUSED; an ACTIVE WINDOW
\* schedule that was never started, whose window has ended, whose window is
\* open, or that was created without duration_seconds; a PAUSED and a
\* STOPPED WINDOW schedule.
StartupRows(i) ==
    {NoRow}
      \cup {[NewSchedule(i, 1, "INTERVAL", 1, Null) EXCEPT
               !.status = st, !.job_id = i] : st \in {"ACTIVE", "PAUSED"}}
      \cup {NewSchedule(i, 1, "WINDOW", 1, 1),
            [NewSchedule(i, 1, "WINDOW", 1, Null) EXCEPT !.started_at = 1]}
      \cup {[NewSchedule(i, 1, "WINDOW", 1, 1) EXCEPT
               !.started_at = sa, !.job_id = i] : sa \in {0, 1}}
      \cup {[NewSchedule(i, 1, "WINDOW", 1, 1) EXCEPT
               !.status = "PAUSED", !.started_at = 1, !.job_id = i],
            [NewSchedule(i, 1, "WINDOW", 1, 1) EXCEPT
               !.status = "STOPPED", !.started_at = 0, !.stopped_at = 1,
               !.job_id = i]}

\* The process starts on a Store that holds one target and up to MaxIds
\* schedules: lifespan has started the scheduler and awaits load_schedules.
PoolInit ==
    /\ now = 1
    /\ targets = {1}
    /\ sched \in {f \in [Ids -> UNION {StartupRows(i) : i \in Ids}] :
                    \A i \in Ids : f[i] \in StartupRows(i)}
    /\ runs = {}
    /\ attempts = {}
    /\ jobs = {}
    /\ firing = [i \in Ids |-> {}]
    /\ req = [k \in Reqs |-> IdleReq]
    /\ boot = [pc |-> "select", obj |-> NoRow, queue |-> <<>>]
    /\ used = [requests |-> 0, restarts |-> 0]
    /\ probe = IdleProbe

\* lifespan after the yield: scheduler_service.shutdown().  The call is
\* synchronous: the registry stops, AsyncIOExecutor.shutdown cancels the
\* futures of the coroutines in flight, and the call returns.
Shutdown ==
    /\ boot.pc = "done"
    /\ \A k \in Reqs : req[k].pc = "idle"
    /\ boot' = [boot EXCEPT !.pc = "down"]
    /\ jobs' = {}
    /\ firing' = [i \in Ids |-> {}]
    /\ UNCHANGED <<probe, now, targets, sched, runs, attempts, req, used>>

PoolNext ==
    \/ Tick
    \/ LoadSelect
    \/ LoadCommit
    \/ Shutdown
    \/ \E k \in Reqs :
        \/ Return(k)
        \/ \E s \in Ids : DeleteSelect(k, s)
        \/ DeleteCommit(k)
    \/ \E s \in Ids :
        \/ Fire(s)
        \/ StopWindow(s)
        \/ FireLoad(s)
        \/ FireReload(s)
        \/ FireTarget(s)
        \/ FireInsert(s)
        \/ \E o \in Outcomes : FireHttp(s, o)
        \/ FireCommit(s)

PoolSpec == PoolInit /\ [][PoolNext]_vars

\* ------------------------------------------------------------ pause and resume of a created schedule

\* The intervals of the schedules created here: some are longer than the
\* window they run in.
WindowIntervals == 1 .. MaxWindowInterval

\* The process serves POST /schedules, pause and resume, fires the timers
\* and restarts.
LifecycleNext ==
    \/ Tick
    \/ Restart
    \/ LoadSelect
    \/ LoadCommit
    \/ CreateTarget
    \/ \E k \in Reqs :
        \/ Return(k)
        \/ AddJobCommit(k)
        \/ \E tid \in TargetIds, ty \in ScheduleType, iv \in WindowIntervals,
              du \in Durations :
                CreateTargetCheck(k, tid, ty, iv, du)
        \/ CreateInsert(k)
        \/ CreateRefresh(k)
        \/ \E s \in ApiIds : PauseSelect(k, s)
        \/ PauseCommit(k)
        \/ PauseRefresh(k)
        \/ \E s \in ApiIds : ResumeSelect(k, s)
        \/ ResumeCommit(k)
        \/ ResumeRefresh(k)
    \/ \E s \in Ids :
        \/ Fire(s)
        \/ StopWindow(s)
        \/ FireLoad(s)
        \/ FireReload(s)
        \/ FireTarget(s)
        \/ FireInsert(s)
        \/ \E o \in Outcomes : FireHttp(s, o)
        \/ FireCommit(s)

LifecycleSpec == Init /\ [][LifecycleNext]_vars

\* ------------------------------------------------------------ update, pause and resume of a stored schedule

\* The ACTIVE schedule the Store holds when the process starts: created and
\* installed by an earlier run of the process (a WINDOW schedule at time 0).
StoredSchedules(i) ==
    {[NewSchedule(i, 1, "INTERVAL", iv, Null) EXCEPT !.job_id = i] :
        iv \in WindowIntervals}
      \cup {[NewSchedule(i, 1, "WINDOW", iv, du) EXCEPT
               !.started_at = 0, !.job_id = i] :
              iv \in WindowIntervals, du \in Durations}

\* The process starts on a Store that holds one target and one ACTIVE
\* schedule: lifespan has started the scheduler and awaits load_schedules.
TimingInit ==
    /\ now = 0
    /\ targets = {1}
    /\ \E row \in StoredSchedules(1) :
          sched = [i \in Ids |-> IF i = 1 THEN row ELSE NoRow]
    /\ runs = {}
    /\ attempts = {}
    /\ jobs = {}
    /\ firing = [i \in Ids |-> {}]
    /\ req = [k \in Reqs |-> IdleReq]
    /\ boot = [pc |-> "select", obj |-> NoRow, queue |-> <<>>]
    /\ used = [requests |-> 0, restarts |-> 0]
    /\ probe = IdleProbe

\* The process rehydrates, serves PUT /schedules/{id}, pause and resume, and
\* fires the timers.
TimingNext ==
    \/ Tick
    \/ LoadSelect
    \/ LoadCommit
    \/ \E k \in Reqs :
        \/ Return(k)
        \/ AddJobCommit(k)
        \/ \E s \in ApiIds, iv \in WindowIntervals \cup {Unset},
              du \in Durations \cup {Unset} :
                UpdateSelect(k, s, iv, du)
        \/ UpdateCommit(k)
        \/ UpdateRefresh(k)
        \/ \E s \in ApiIds : PauseSelect(k, s)
        \/ PauseCommit(k)
        \/ PauseRefresh(k)
        \/ \E s \in ApiIds : ResumeSelect(k, s)
        \/ ResumeCommit(k)
        \/ ResumeRefresh(k)
    \/ \E s \in Ids :
        \/ Fire(s)
        \/ StopWindow(s)
        \/ FireLoad(s)
        \/ FireReload(s)
        \/ FireTarget(s)
        \/ FireInsert(s)
        \/ \E o \in Outcomes : FireHttp(s, o)
        \/ FireCommit(s)

TimingSpec == TimingInit /\ [][TimingNext]_vars

TypeOK ==
    /\ now \in 0 .. MaxTime
    /\ targets \subseteq TargetIds
    /\ \A i \in Ids : sched[i].exists => sched[i].id = i


\* ------------------------------------------------------------ claims

\* C1: STOPPED is terminal.  No step of any handler, callback or of the
\* rehydration takes a schedule row whose status is STOPPED to ACTIVE or
\* PAUSED.
StoppedIsTerminal ==
    [][\A s \in Ids :
         (sched[s].exists /\ sched[s].status = "STOPPED" /\ sched'[s].exists)
            => sched'[s].status = "STOPPED"]_vars

\* The Run rows of schedule s that a step inserts.
InsertedRuns(s) ==
    {r \in runs' : r.schedule_id = s /\ r.id \notin {q.id : q \in runs}}

\* C2: a PAUSED schedule produces zero new Runs.  No step taken while the
\* committed status of a schedule is PAUSED inserts a Run row of it.
PausedProducesNoRuns ==
    [][\A s \in Ids :
         (sched[s].exists /\ sched[s].status = "PAUSED")
            => InsertedRuns(s) = {}]_vars

\* The firings of schedule s that have stamped their Run's started_at and
\* not yet its completed_at.
InFlight(s) == {f \in firing[s] : f.pc \in {"insert", "http"}}

Completed(r) == r.completed_at # Null

\* C3: no two Runs of one schedule overlap.  At most one Run of a schedule
\* is between its started_at and its completed_at; a Run in flight started
\* no earlier than every other Run of the schedule completed; and of any two
\* completed Runs of a schedule one completed no later than the other
\* started.
RunsDoNotOverlap ==
    \A s \in Ids :
        /\ Cardinality(InFlight(s)) <= 1
        /\ \A f \in InFlight(s) : \A r \in RunsOf(s) :
              (Completed(r) /\ r.id # f.run.id)
                 => r.completed_at <= f.run.started_at
        /\ \A r1, r2 \in RunsOf(s) :
              (r1.id # r2.id /\ Completed(r1) /\ Completed(r2))
                 => \/ r1.completed_at <= r2.started_at
                    \/ r2.completed_at <= r1.started_at

\* A firing of a schedule is in flight while its timer, replaced or resumed
\* since, is due again, and an earlier Run of it is completed.
RunsDoNotOverlapWitness ==
    \E s \in Ids :
        /\ InFlight(s) # {}
        /\ \E j \in Due("_execute_job") :
              j.arg = s /\ InGrace(j.next_run_time)
        /\ \E r \in RunsOf(s) : Completed(r)

\* The window of the stored schedule row has elapsed.
Elapsed(row) ==
    /\ row.exists /\ row.schedule_type = "WINDOW"
    /\ row.started_at # Null /\ row.duration_seconds # Null
    /\ row.started_at + row.duration_seconds <= now

Stopped(row) == row.status = "STOPPED" /\ row.stopped_at # Null

\* Nothing that could still stop schedule s is under way: the rehydration
\* is over, no admin request is being handled and no stop hook of s is
\* registered.
Settled(s) ==
    /\ boot.pc = "done"
    /\ \A k \in Reqs : req[k].pc = "idle"
    /\ ~\E j \in jobs : j.func = "_stop_window_schedule" /\ j.arg = s

\* C4: a WINDOW schedule whose window has elapsed (started_at +
\* duration_seconds <= now) has status STOPPED and a non-null stopped_at,
\* in every state in which no stop of it is still under way.
ElapsedWindowIsStopped ==
    \A s \in Ids : (Elapsed(sched[s]) /\ Settled(s)) => Stopped(sched[s])

\* ------------------------------------------------------------ fairness

\* The event loop runs every coroutine that can go on and the registry
\* processes every timer that is due; requests, restarts and the passing of
\* time are up to the environment.
Fairness ==
    /\ WF_vars(LoadSelect) /\ WF_vars(LoadCommit)
    /\ \A k \in Reqs :
         WF_vars(Return(k) \/ AddJobCommit(k) \/ DeleteTargetCommit(k)
                 \/ CreateInsert(k) \/ CreateRefresh(k)
                 \/ UpdateCommit(k) \/ UpdateRefresh(k)
                 \/ PauseCommit(k) \/ PauseRefresh(k)
                 \/ ResumeCommit(k) \/ ResumeRefresh(k) \/ DeleteCommit(k))
    /\ \A s \in Ids :
         /\ WF_vars(Fire(s)) /\ WF_vars(StopWindow(s))
         /\ WF_vars(FireLoad(s) \/ FireReload(s) \/ FireTarget(s)
                    \/ FireInsert(s) \/ (\E o \in Outcomes : FireHttp(s, o))
                    \/ FireCommit(s))

FairSpec == Spec /\ Fairness

\* C5: every activated WINDOW schedule whose window has elapsed eventually
\* is STOPPED (or is deleted, or has its window extended), when the event
\* loop and the registry are fair.
ElapsedWindowEventuallyStopped ==
    \A s \in Ids :
        Elapsed(sched[s]) ~>
            (~Elapsed(sched[s]) \/ sched[s].status = "STOPPED")

\* The stored schedule row is a WINDOW schedule whose window is known.
Windowed(row) ==
    /\ row.exists /\ row.schedule_type = "WINDOW"
    /\ row.started_at # Null /\ row.duration_seconds # Null

\* C6: a WINDOW schedule produces no Run after its window ends.  Every Run
\* row a step inserts for a WINDOW schedule has started_at no later than
\* the schedule's stored started_at + duration_seconds.
NoRunAfterWindowEnd ==
    [][\A s \in Ids :
         Windowed(sched[s])
            => \A r \in InsertedRuns(s) :
                  r.started_at
                     <= sched[s].started_at + sched[s].duration_seconds]_vars

\* The names under which jobs are registered.
JobNames(J) == {j.id : j \in J}

OneJobPerName(J) == \A id \in JobNames(J) : Cardinality(GetJob(J, id)) = 1

\* add_job returned having registered the schedule's timers.
Registered(a) == a.pc \in {"aj_job", "aj_nop"}

\* C7: add_job is idempotent on the registry.  In every reachable state
\* each job name is registered once; and for every stored schedule, calling
\* add_job a second time leaves the registry as the first call left it,
\* with, when add_job registers the schedule, exactly one main timer
\* schedule_<id> and, for a WINDOW schedule, exactly one stop hook
\* schedule_<id>_stop.
AddJobIdempotent ==
    /\ OneJobPerName(jobs)
    /\ \A s \in ScheduleIds :
          LET once == AddJob(sched[s], jobs, now)
              twice == AddJob(once.obj, once.jobs, now)
          IN  /\ twice.jobs = once.jobs
              /\ OneJobPerName(twice.jobs)
              /\ Registered(once) =>
                    /\ Registered(twice)
                    /\ Cardinality(GetJob(twice.jobs, JobId(s))) = 1
                    /\ sched[s].schedule_type = "WINDOW" =>
                          Cardinality(GetJob(twice.jobs,
                                             StopJobId(s))) = 1

\* add_job meets both timers of a WINDOW schedule in the registry, under
\* other run times than it registers, and replaces them.
AddJobIdempotentWitness ==
    \E s \in ScheduleIds :
        LET once == AddJob(sched[s], jobs, now)
        IN  /\ Registered(once)
            /\ HasJob(jobs, JobId(s)) /\ HasJob(jobs, StopJobId(s))
            /\ GetJob(jobs, JobId(s)) # GetJob(once.jobs, JobId(s))
            /\ GetJob(jobs, StopJobId(s)) # GetJob(once.jobs, StopJobId(s))

\* No timer of schedule s is registered, neither under the names add_job
\* gives its timers nor under the names remove_job derives from job_id.
NoTimerOf(row) ==
    \A id \in {JobId(row.id), StopJobId(row.id),
               JobId(row.job_id), StopJobId(row.job_id)} : ~HasJob(jobs, id)

\* The step in which the handler k of DELETE /schedules/{id} loads the
\* stored schedule s and calls remove_job on it.
RemoveJobCalled(k, s) ==
    /\ req[k].pc = "idle" /\ req'[k].op = "delete" /\ req'[k].sid = s
    /\ sched[s].exists

\* C8: remove_job on a schedule that has no registered timer (its job_id
\* null or not) raises no error and leaves the registry and the Store
\* unchanged.
RemoveJobSafeOnUnregistered ==
    [][\A k \in Reqs, s \in Ids :
         (RemoveJobCalled(k, s) /\ NoTimerOf(sched[s]))
            => /\ req'[k].pc = "delete"
               /\ jobs' = jobs
               /\ sched' = sched]_vars

\* remove_job has returned for a schedule whose job_id is null and that has
\* no timer.
RemoveJobSafeOnUnregisteredWitness ==
    \E k \in Reqs :
        /\ req[k].op = "delete" /\ req[k].pc = "delete"
        /\ sched[req[k].sid].exists
        /\ sched[req[k].sid].job_id = Null
        /\ NoTimerOf(sched[req[k].sid])

\* C9: remove_job removes both timers of a schedule.  After the step in
\* which remove_job is called on a stored schedule, neither schedule_<id>
\* nor schedule_<id>_stop is registered.
RemoveJobRemovesBothTimers ==
    [][\A k \in Reqs, s \in Ids :
         RemoveJobCalled(k, s)
            => /\ ~HasJob(jobs', JobId(s))
               /\ ~HasJob(jobs', StopJobId(s))]_vars

\* No schedule that load_schedules loads from rows has a window that has
\* ended at time t.
NoWindowEnded(rows, t) ==
    \A s \in ActiveIds(rows) :
        (rows[s].schedule_type = "WINDOW" /\ rows[s].started_at # Null
         /\ rows[s].duration_seconds # Null)
            => t < rows[s].started_at + rows[s].duration_seconds

\* C10: rehydration is idempotent.  From every reachable Store and
\* registry, a second run of load_schedules leaves the registry as the
\* first run left it; and a second run at a later time, before any loaded
\* window has ended, leaves the same job names, each registered once.
RehydrationIdempotent ==
    LET once == LoadSchedules(sched, jobs, now)
        twice == LoadSchedules(once.sched, once.jobs, now)
        later == LoadSchedules(once.sched, once.jobs, now + 1)
    IN  /\ twice.jobs = once.jobs
        /\ NoWindowEnded(once.sched, now + 1) =>
              /\ JobNames(later.jobs) = JobNames(once.jobs)
              /\ Cardinality(later.jobs) = Cardinality(once.jobs)

\* load_schedules registers the timers of an INTERVAL or unexpired WINDOW
\* schedule that the registry does not hold, and a second run replaces
\* them.
RehydrationIdempotentWitness ==
    LET once == LoadSchedules(sched, jobs, now)
        later == LoadSchedules(once.sched, once.jobs, now + 1)
    IN  /\ boot.pc = "select"
        /\ used.restarts > 0
        /\ once.jobs # jobs
        /\ NoWindowEnded(once.sched, now + 1)
        /\ later.jobs # once.jobs

\* add_job raises for the row: a WINDOW schedule without duration_seconds.
InstallFails(row) ==
    row.schedule_type = "WINDOW" /\ row.duration_seconds = Null

MirroringAttempts(r) ==
    {a \in attempts : /\ a.run_id = r.id
                      /\ a.attempt_number = 1
                      /\ a.status = r.status
                      /\ a.status_code = r.status_code}

\* C12: every completed Run (completed_at set) has exactly one Attempt with
\* attempt_number 1 and the Run's status and status_code, and the two
\* become visible together: no completed Run is without its Attempt and no
\* Attempt belongs to a Run that is not completed.
OneAttemptPerCompletedRun ==
    /\ \A r \in runs :
         r.completed_at # Null => Cardinality(MirroringAttempts(r)) = 1
    /\ \A a \in attempts :
         \E r \in runs : r.id = a.run_id /\ r.completed_at # Null

\* The Run row the followed execute_schedule call has stored, if any.
StoredRuns == IF probe.row.id = Null THEN {} ELSE {probe.row}

\* C13: for every stored Run, status = SUCCESS if and only if status_code
\* is set and 200 <= status_code < 300, and every SUCCESS Run has
\* latency_ms >= 0.
SuccessIffTwoHundreds ==
    \A r \in StoredRuns :
        /\ (r.status = "SUCCESS")
              <=> (r.status_code # Null /\ 200 <= r.status_code
                   /\ r.status_code < 300)
        /\ r.status = "SUCCESS" => (r.latency_ms # Null /\ r.latency_ms >= 0)

\* A SUCCESS Run is stored for the last code of the 2xx class, with a
\* latency that is not zero.
SuccessIffTwoHundredsWitness ==
    \E r \in StoredRuns :
        r.status = "SUCCESS" /\ r.status_code = 299 /\ r.latency_ms > 0

\* The error_type that goes with a status of the transport failures.
ErrorTypeOf(status) ==
    CASE status = "TIMEOUT"          -> "timeout"
      [] status = "DNS_ERROR"        -> "dns"
      [] status = "CONNECTION_ERROR" -> "connection"

\* C14: every stored Run whose status is TIMEOUT, DNS_ERROR or
\* CONNECTION_ERROR has a null status_code and the error_type of its status.
TransportFailureFields ==
    \A r \in StoredRuns :
        r.status \in {"TIMEOUT", "DNS_ERROR", "CONNECTION_ERROR"}
            => (r.status_code = Null /\ r.error_type = ErrorTypeOf(r.status))

\* A completed Run of a refused connection is stored.
TransportFailureFieldsWitness ==
    /\ probe.pc = "done"
    /\ \E r \in StoredRuns :
         r.completed_at # Null /\ r.status = "CONNECTION_ERROR"

\* The classification table: the status and the error_type of a code.
TableRow(code) ==
    IF 200 <= code /\ code <= 299 THEN <<"SUCCESS", Null>>
    ELSE IF 400 <= code /\ code <= 499 THEN <<"FAILED", "http_4xx">>
    ELSE IF 500 <= code /\ code <= 599 THEN <<"FAILED", "http_5xx">>
    ELSE <<"FAILED", "http_unexpected">>

\* C15: the classification of a received status code matches the table for
\* every code: 2xx SUCCESS without error_type, 4xx FAILED/http_4xx, 500..599
\* FAILED/http_5xx, every other code FAILED/http_unexpected.
ClassificationMatchesTable ==
    (probe.pc \in {"commit", "done"} /\ probe.out.kind = "response"
     /\ probe.run.id # Null)
        => /\ <<probe.run.status, probe.run.error_type>>
                 = TableRow(probe.out.code)
           /\ probe.run.status_code = probe.out.code

\* C16: a host name that does not resolve, reported by a ConnectError or by
\* an exception outside httpx carrying one of the resolver's messages, is
\* classified DNS_ERROR with error_type dns.
ResolutionFailureIsDnsError ==
    (probe.pc \in {"commit", "done"} /\ probe.out.kind = "raise"
     /\ probe.run.id # Null
     /\ probe.out.class \in {"ConnectError", "OSError"}
     /\ Lower(probe.out.msg) \in DnsTokens)
        => (probe.run.status = "DNS_ERROR" /\ probe.run.error_type = "dns")

\* C17: when execute_schedule has ended, normally or through a failure of
\* the Store after the provisional insert was committed, the Run it
\* inserted is terminal: completed_at is set, and a Run whose call failed is
\* FAILED with error_type unknown.
NoPartialRun ==
    probe.pc = "done" =>
        \A r \in StoredRuns :
            /\ r.completed_at # Null
            /\ probe.returned = "None"
                  => (r.status = "FAILED" /\ r.error_type = "unknown")

\* The handler k is past the commit of its mutation: it awaits the refresh
\* that follows the commit, or it is inside the add_job it then called.
PastCommit(k) == req[k].pc \in {"refresh"} \cup AddJobPcs

\* A step of the handler k in which it calls the Scheduler Service and the
\* registry changes.
Notifies(k) ==
    /\ req'[k] # req[k]
    /\ jobs' # jobs
    /\ used'.restarts = used.restarts

\* C20: commit before notify.  For every schedule-mutating admin operation
\* (create, update, pause, resume, delete) the Store commit of the mutation
\* happens before the call of add_job, pause_job, resume_job or remove_job.
CommitBeforeNotify ==
    [][\A k \in Reqs : Notifies(k) => PastCommit(k)]_vars

\* The Run of the coroutine f is stored as completed in the table R.
RunCompletedIn(f, R) ==
    \E r \in R : r.id = f.run.id /\ r.completed_at # Null

\* C18: shutdown() stops new firings and waits for the firings in flight.
\* When shutdown() returns, every firing that was in flight at the call and
\* had inserted its Run has persisted the completed Run, and after it no
\* firing callback starts.
ShutdownWaitsForFirings ==
    [][/\ (boot.pc = "done" /\ boot'.pc = "down")
            => \A s \in Ids : \A f \in firing[s] :
                   f.run.id # Null => RunCompletedIn(f, runs')
       /\ boot.pc = "down"
            => \A s \in Ids : firing'[s] \subseteq firing[s]]_vars

\* The number of firings in flight, over the schedules 1 .. n.
RECURSIVE InFlightUpTo(_)
InFlightUpTo(n) ==
    IF n = 0 THEN 0 ELSE InFlightUpTo(n - 1) + Cardinality(firing[n])

\* C19: the number of firings in flight at the same time, over all
\* schedules, never exceeds max_concurrent_jobs.
FiringsWithinMaxConcurrentJobs ==
    InFlightUpTo(MaxIds) <= max_concurrent_jobs

\* A step of the create or update handler k in which the add_job it called
\* raises: timedelta(seconds=None) for a WINDOW schedule without
\* duration_seconds, at once or after the commit of started_at.
InstallRaises(k) ==
    /\ req[k].op \in {"create", "update"}
    /\ req'[k] # req[k]
    /\ used'.restarts = used.restarts
    /\ \/ /\ req[k].pc = "refresh"
          /\ sched[req[k].sid].exists
          /\ req[k].op = "update" => sched[req[k].sid].status = "ACTIVE"
          /\ AddJobEnter(sched[req[k].sid], jobs, now).pc = "raise"
       \/ /\ req[k].pc = "aj_started"
          /\ sched[req[k].sid].exists
          /\ AddJobWindow(req[k].obj, jobs, now).pc = "raise"

\* C21: when installing the timer fails inside create_schedule or
\* update_schedule, the call returns a server-side failure and the
\* schedule's row is left as it was committed before the installation.
InstallFailureReported ==
    [][\A k \in Reqs :
         InstallRaises(k)
            => /\ req'[k].pc = "respond" /\ req'[k].code = "500"
               /\ sched'[req[k].sid] = sched[req[k].sid]]_vars

\* C23: every stored schedule of type WINDOW has a duration_seconds that is
\* set and positive, after any sequence of create and update operations.
WindowHasDuration ==
    \A s \in Ids :
        (sched[s].exists /\ sched[s].schedule_type = "WINDOW")
            => (sched[s].duration_seconds # Null
                /\ sched[s].duration_seconds > 0)

\* The firing f of schedule s, which awaits its final commit, ends in the
\* step (the process goes on).
FiringEnds(s, f) ==
    /\ f.pc = "commit"
    /\ f \notin firing'[s]
    /\ used'.restarts = used.restarts
    /\ boot'.pc = boot.pc

\* The Run of the firing f is stored in R as a completed Run and A holds an
\* Attempt of it.
Persisted(f, R, A) ==
    \E r \in R : /\ r.id = f.run.id
                 /\ r.completed_at # Null
                 /\ r.status = f.run.status
                 /\ \E a \in A : a.run_id = r.id /\ a.status = r.status

\* C22: pausing or removing a schedule affects future firings only.  A
\* firing that is in flight, its Run inserted, when its schedule is paused
\* or deleted goes on to its end and its Run is stored as a completed Run
\* with its Attempt.
InFlightFiringPersists ==
    [][\A s \in Ids : \A f \in firing[s] :
         (FiringEnds(s, f)
          /\ (~sched[s].exists \/ sched[s].status = "PAUSED"))
            => Persisted(f, runs', attempts')]_vars

\* C24: the persisted job_id reflects the registration.  Whenever the
\* rehydration is over and no admin request is being handled, the job_id of
\* a stored schedule is "schedule_<id>" if its main timer is registered and
\* null if it is not.
JobIdReflectsRegistration ==
    (boot.pc = "done" /\ \A k \in Reqs : req[k].pc = "idle")
        => \A s \in Ids :
              sched[s].exists
                 => /\ HasJob(jobs, JobId(s)) => sched[s].job_id = s
                    /\ ~HasJob(jobs, JobId(s)) => sched[s].job_id = Null

\* The order in which a firing goes through execute_schedule: each await is
\* passed once, the HTTP request ("http") included.
FiringOrder ==
    {<<"load", "reload">>, <<"reload", "target">>, <<"target", "insert">>,
     <<"insert", "http">>, <<"http", "commit">>}

\* A step takes the coroutines of a job id forward only: no coroutine
\* returns to an await it has passed, none starts anywhere but at "load".
GoesForward(F, G) ==
    \A g \in G \ F :
        \/ g.pc = "load"
        \/ \E f \in F \ G : <<f.pc, g.pc>> \in FiringOrder

\* C25: each firing makes exactly one attempt.  A firing on an ACTIVE
\* schedule with an existing target issues the HTTP request once, inserts
\* exactly one Run and exactly one Attempt (attempt_number 1), and nothing
\* re-issues the request after a failed outcome.
OneAttemptPerFiring ==
    [][\A s \in Ids :
         /\ GoesForward(firing[s], firing'[s])
         /\ \A f \in firing[s] :
              /\ (f.pc = "insert" /\ f \notin firing'[s]
                  /\ used'.restarts = used.restarts /\ boot'.pc = boot.pc)
                    => Cardinality(runs' \ runs) = 1
              /\ (f.pc \in {"http", "commit"} /\ f \notin firing'[s])
                    => {r.id : r \in runs'} \subseteq {r.id : r \in runs}
              /\ FiringEnds(s, f)
                    => /\ Cardinality(attempts' \ attempts) = 1
                       /\ \A a \in attempts' \ attempts :
                            a.run_id = f.run.id /\ a.attempt_number = 1]_vars

\* The status and the error_type that go with a failure of the request: a
\* timeout, a host name that does not resolve (reported by a connect error
\* or by an exception outside httpx), another connect error, anything else.
FailureRow(out) ==
    IF IsInstance(out.class, "TimeoutException") THEN <<"TIMEOUT", "timeout">>
    ELSE IF out.class \in {"ConnectError", "OSError"}
            /\ Lower(out.msg) \in DnsTokens THEN <<"DNS_ERROR", "dns">>
    ELSE IF out.class = "ConnectError"
      THEN <<"CONNECTION_ERROR", "connection">>
    ELSE <<"FAILED", "unknown">>

\* C26: firing errors never escape the firing.  For every failure of the
\* outbound request (timeout, DNS, connection, any other exception) the
\* call returns, and once its final commit has returned the failure is
\* stored as a completed Run with the status and the error_type of the
\* failure.
RequestFailureRecorded ==
    (probe.pc = "done" /\ probe.out.kind = "raise" /\ probe.returned = "run")
        => /\ probe.row.id # Null
           /\ probe.row.completed_at # Null
           /\ probe.row.status_code = Null
           /\ <<probe.row.status, probe.row.error_type>>
                 = FailureRow(probe.out)

\* The end of the window add_job computes for the row at time t.
EndTime(row, t) ==
    (IF row.started_at = Null THEN t ELSE row.started_at)
        + row.duration_seconds

\* C27: add_job on a WINDOW schedule whose window has elapsed (now >=
\* started_at + duration_seconds) sets status STOPPED and stopped_at = now
\* and leaves no main timer registered; otherwise it registers the main
\* timer with end_time = started_at + duration_seconds and a one-shot stop
\* hook at the same end_time.  Stated of add_job run on every stored WINDOW
\* schedule that has a duration, on every reachable registry, and of every
\* handler that awaits the commit of the STOPPED row.
AddJobWindowContract ==
    /\ \A s \in Ids :
         (sched[s].exists /\ sched[s].schedule_type = "WINDOW"
          /\ sched[s].duration_seconds # Null)
            => LET a == AddJob(sched[s], jobs, now)
                   end == EndTime(sched[s], now)
               IN  IF now >= end
                   THEN /\ a.obj.status = "STOPPED"
                        /\ a.obj.stopped_at = now
                        /\ ~HasJob(a.jobs, JobId(s))
                   ELSE /\ a.obj.status = sched[s].status
                        /\ \E j \in GetJob(a.jobs, JobId(s)) :
                             j.func = "_execute_job" /\ j.end_date = end
                        /\ \E j \in GetJob(a.jobs, StopJobId(s)) :
                             /\ j.func = "_stop_window_schedule"
                             /\ j.next_run_time = end
                        /\ Cardinality(GetJob(a.jobs, JobId(s))) = 1
                        /\ Cardinality(GetJob(a.jobs, StopJobId(s))) = 1
    /\ \A k \in Reqs :
         req[k].pc = "aj_stopped"
            => /\ req[k].obj.status = "STOPPED"
               /\ req[k].obj.stopped_at # Null
               /\ req[k].obj.stopped_at
                     >= req[k].obj.started_at + req[k].obj.duration_seconds

\* A handler is inside an add_job that found the window of a stored ACTIVE
\* schedule elapsed: no main timer is registered and the STOPPED row awaits
\* its commit.
AddJobWindowContractWitness ==
    \E k \in Reqs :
         /\ req[k].pc = "aj_stopped"
         /\ req[k].obj.stopped_at = now
         /\ sched[req[k].sid].exists
         /\ sched[req[k].sid].status = "ACTIVE"
         /\ ~HasJob(jobs, JobId(req[k].sid))

\* The firing f of schedule s is at the check of _execute_job and the
\* schedule row is missing or not ACTIVE.
CheckFails(s, f) ==
    f.pc = "load" /\ (~sched[s].exists \/ sched[s].status # "ACTIVE")

StartedAtSetOnce ==
    [][\A s \in Ids :
         (sched[s].exists /\ sched[s].started_at # Null /\ sched'[s].exists)
            => sched'[s].started_at = sched[s].started_at]_vars

\* The resume handler k answers 200 in this step: it returns without an
\* error response.
ResumeSucceeds(k) ==
    /\ req[k].op = "resume" /\ req[k].pc # "respond"
    /\ req'[k].pc = "idle"
    /\ used'.restarts = used.restarts

\* The window of the row has not elapsed at time t (an INTERVAL schedule has
\* no window).
WindowOpen(row, t) ==
    \/ row.schedule_type = "INTERVAL"
    \/ /\ row.started_at # Null /\ row.duration_seconds # Null
       /\ t < row.started_at + row.duration_seconds

RunTimeRemains(row, t) ==
    \/ row.schedule_type = "INTERVAL"
    \/ /\ row.started_at # Null /\ row.duration_seconds # Null
       /\ t + row.interval_seconds <= row.started_at + row.duration_seconds

IssuesRequest(s, f) ==
    /\ f.pc = "insert"
    /\ f \notin firing'[s]
    /\ \E g \in firing'[s] : g.pc = "http"

\* The coroutine f of schedule s finds its target missing and returns.
TargetMissing(s, f) ==
    /\ f.pc = "target" /\ f.tid \notin targets
    /\ f \notin firing'[s]
    /\ used'.restarts = used.restarts /\ boot'.pc = boot.pc

\* C31: when the executor issues the request, a Run row of the firing has
\* been committed with status FAILED, started_at set, completed_at null and
\* the snapshot of the target; a firing whose target is missing returns
\* without writing a Run row.
ProvisionalRunBeforeRequest ==
    [][\A s \in Ids : \A f \in firing[s] :
         /\ IssuesRequest(s, f) =>
              \E g \in firing'[s] :
                 /\ g.pc = "http"
                 /\ \E r \in runs' \ runs :
                      /\ r.id = g.run.id
                      /\ r.schedule_id = s
                      /\ r.status = "FAILED"
                      /\ r.started_at # Null
                      /\ r.completed_at = Null
                      /\ r.status_code = Null
                      /\ r.request_target = f.tid
         /\ TargetMissing(s, f) =>
              /\ firing'[s] = firing[s] \ {f}
              /\ runs' = runs /\ attempts' = attempts]_vars

\* A firing is about to read a target that was deleted after its schedule
\* was loaded.
ProvisionalRunBeforeRequestWitness ==
    \E s \in Ids : \E f \in firing[s] : f.pc = "target" /\ f.tid \notin targets

\* The failures of the table's rows for exceptions: a connect or read
\* timeout; a refused or unreachable connection (a ConnectError whose
\* message is not that of a resolution failure) or a reset one (the message
\* of ECONNRESET, which the client raises as ReadError when the peer resets
\* an established connection); any other exception that is not a
\* resolution failure.
ExceptionRow(out) ==
    IF out.class \in {"ConnectTimeout", "ReadTimeout"}
      THEN <<"TIMEOUT", "timeout">>
    ELSE IF out.msg = "Connection reset by peer"
            \/ out.class = "ConnectError"
      THEN <<"CONNECTION_ERROR", "connection">>
    ELSE <<"FAILED", "unknown">>

\* C32: what _execute_request returns for an exception is the row of the
\* table: TIMEOUT/timeout for a connect and for a read timeout,
\* CONNECTION_ERROR/connection for a refused, reset or unreachable
\* connection, FAILED/unknown for any other exception; latency_ms is
\* computed and not negative on each of these paths.
ExceptionsClassifiedAsTable ==
    (/\ probe.pc = "commit" /\ probe.out.kind = "raise"
     /\ Lower(probe.out.msg) \notin DnsTokens)
        => /\ <<probe.run.status, probe.run.error_type>>
                 = ExceptionRow(probe.out)
           /\ probe.run.latency_ms # Null
           /\ probe.run.latency_ms >= 0

\* C33: for every response the stored response_body is at most 10,000
\* bytes long and is a prefix of the full body, and response_size_bytes is
\* the byte length of the full body, also when characters of the body take
\* more than one byte.
StoredBodyWithinLimit ==
    (probe.pc = "commit" /\ probe.out.kind = "response")
        => /\ ByteLength(probe.run.response_body) <= 10000
           /\ Slice(probe.out.body, Chars(probe.run.response_body))
                 = probe.run.response_body
           /\ probe.run.response_size_bytes = ByteLength(probe.out.body)

\* C34: no orphan timers.  Every timer of the registry, main timer or stop
\* hook, refers to a schedule row that exists in the Store; after a target
\* is deleted no timer of its schedules is registered.
NoOrphanTimers ==
    \A j \in jobs : j.arg \in Ids /\ sched[j.arg].exists

\* No handler is in flight and the rehydration is over.
Quiescent == boot.pc = "done" /\ \A k \in Reqs : req[k].pc = "idle"

\* The main timer j of schedule s has the timing of the stored row.
AgreesWithRow(s, j) ==
    /\ j.seconds = sched[s].interval_seconds
    /\ sched[s].schedule_type = "WINDOW" =>
          /\ sched[s].started_at # Null /\ sched[s].duration_seconds # Null
          /\ j.end_date = sched[s].started_at + sched[s].duration_seconds
          /\ \A h \in GetJob(jobs, StopJobId(s)) :
                h.next_run_time
                   = sched[s].started_at + sched[s].duration_seconds

\* C35: the registered timer agrees with the Store row.  Once the handlers
\* of create, update, pause and resume have returned, an unpaused main timer
\* of an ACTIVE schedule has the stored interval_seconds as its period and,
\* for a WINDOW schedule, started_at + duration_seconds as its end and as
\* the instant of its stop hook.
TimerAgreesWithRow ==
    Quiescent =>
        \A s \in Ids :
            (sched[s].exists /\ sched[s].status = "ACTIVE") =>
                \A j \in GetJob(jobs, JobId(s)) :
                    j.next_run_time # Null => AgreesWithRow(s, j)

\* A step keeps the stopped_at of the STOPPED schedule s.
KeepsStoppedAt(s) ==
    (/\ sched[s].exists /\ sched[s].status = "STOPPED"
     /\ sched[s].stopped_at # Null /\ sched'[s].exists)
        => sched'[s].stopped_at = sched[s].stopped_at

\* The commit of status STOPPED that add_job awaits for handler k returns in
\* this step.
AddJobStops(k) ==
    /\ req[k].pc = "aj_stopped" /\ req'[k].pc # "aj_stopped"
    /\ used'.restarts = used.restarts
    /\ sched'[req[k].sid].exists /\ sched'[req[k].sid].status = "STOPPED"

\* C36: once a schedule is STOPPED its stopped_at is never rewritten, and
\* when add_job stops a WINDOW schedule that has already expired no stop
\* hook schedule_<id>_stop stays registered.
StoppedAtIsFinal ==
    [][/\ \A s \in Ids : KeepsStoppedAt(s)
       /\ \A k \in Reqs :
             AddJobStops(k) => ~HasJob(jobs', StopJobId(req[k].sid))]_vars

\* The pause handler k runs pause_job in this step.
PauseJobRuns(k) ==
    /\ req[k].op = "pause" /\ req[k].pc = "refresh"
    /\ req'[k] # req[k]
    /\ used'.restarts = used.restarts

\* The registry processes the due stop hook j in this step, within its
\* grace time.
StopHookRuns(j) ==
    /\ j \in Due("_stop_window_schedule")
    /\ InGrace(j.next_run_time)
    /\ jobs' = jobs \ {j}
    /\ UNCHANGED <<req, boot, firing, used>>

\* C37: pause_job pauses only the main timer.  It leaves every stop hook as
\* it is and the other main timers too; a stop hook that fires sets the
\* stored schedule to STOPPED with stopped_at = now whatever its status
\* was, PAUSED included; and a resume of a STOPPED schedule is rejected with
\* a 400 and changes nothing.
PauseKeepsStopHook ==
    [][/\ \A k \in Reqs :
            PauseJobRuns(k) =>
               /\ \A j \in jobs :
                     j.id # JobId(req[k].sid) => j \in jobs'
               /\ \A j \in jobs' :
                     j \in jobs
                       \/ /\ j.id = JobId(req[k].sid)
                          /\ j.next_run_time = Null
                          /\ \E h \in jobs : j = [h EXCEPT !.next_run_time = Null]
       /\ \A j \in jobs :
            (StopHookRuns(j) /\ sched[j.arg].exists) =>
               /\ sched'[j.arg].status = "STOPPED"
               /\ sched'[j.arg].stopped_at = now
       /\ \A k \in Reqs :
            (/\ req[k].pc = "idle" /\ req'[k].op = "resume"
             /\ sched[req'[k].sid].exists
             /\ sched[req'[k].sid].status = "STOPPED") =>
               /\ req'[k].pc = "respond" /\ req'[k].code = "400"
               /\ UNCHANGED <<sched, jobs>>]_vars

\* A schedule that was paused and then stopped by its hook (its paused main
\* timer is still registered) is asked to resume, and the request is
\* rejected.
PauseKeepsStopHookWitness ==
    \E k \in Reqs :
        /\ req[k].op = "resume" /\ req[k].pc = "respond" /\ req[k].code = "400"
        /\ sched[req[k].sid].exists
        /\ sched[req[k].sid].schedule_type = "WINDOW"
        /\ sched[req[k].sid].status = "STOPPED"
        /\ sched[req[k].sid].stopped_at # Null
        /\ \E j \in GetJob(jobs, JobId(req[k].sid)) : j.next_run_time = Null
        /\ ~HasJob(jobs, StopJobId(req[k].sid))

=============================================================================
